---- MODULE Spec2Model ----
(***************************************************************************)
(* MaaLogs (src-tauri): the in-process metrics registry (metrics.rs), the  *)
(* background exposition server started by start_metrics_server, the       *)
(* environment configuration (config.rs) and the host wiring (lib.rs).     *)
(*                                                                         *)
(* Conventions of the model:                                               *)
(*  - durations are integers in milliseconds (the code passes f64 seconds);*)
(*    the library's default bucket boundaries are scaled the same way;     *)
(*  - an environment value is a sequence of one-character strings;         *)
(*  - the exposition body is a sequence of line records, in the order the  *)
(*    library writes them (families by name, samples by label values);     *)
(*  - the library calls (once_cell::Lazy, prometheus, tiny_http) are       *)
(*    modelled by their documented behaviour at the lines that call them.  *)
(***************************************************************************)
EXTENDS Integers, Sequences, FiniteSets, TLC

VARIABLES
    env,              \* value of MAALOGS_METRICS_ENABLED in the process environment
    mainPc,           \* position of the host main thread inside run()
    enabled,          \* what metrics_enabled() returned in setup: <<b>> (<<>> before)
    starts,           \* history: number of calls of start_metrics_server
    METRICS,          \* the Lazy<Metrics> cell: its state and the instance it holds
    instances,        \* number of Metrics::new runs started so far
    registry,         \* prometheus default registry: collector names, in registration order
    command_total,    \* IntCounterVec children: (command, status) -> count
    command_duration, \* HistogramVec children: command -> [counts, sum, count]
    app_up,           \* IntGauge value
    pc,               \* position of each host command thread
    arg,              \* arguments of the observe_command call each thread is in
    seen,             \* the Metrics instance each thread's last deref of METRICS gave
    calls,            \* history: number of observe_command calls made per (command, status, duration)
    listener,         \* the socket of Server::http: "none", "bound", "failed", or
                      \* "broken" once accepting a connection has failed
    srvPc,            \* position of the exporter thread
    srvReq,           \* the request the exporter is handling
    srvTodo,          \* collectors gather() has still to collect
    srvMf,            \* metric families gather() has collected so far
    srvQuiet,         \* history: no observe_command call was in progress when gather()
                      \* began and none has been made since
    inbox,            \* the server's message queue: requests (and the accept error)
                      \* not yet taken by the loop
    sent,             \* number of requests clients have sent
    responses,        \* ids and statuses of the responses issued by the exporter, in order
    lastResponse      \* the response issued last, in full

vars == <<env, mainPc, enabled, starts, METRICS, instances, registry, command_total,
          command_duration, app_up, pc, arg, seen, calls, listener, srvPc, srvReq,
          srvTodo, srvMf, srvQuiet, inbox, sent, responses, lastResponse>>

hostVars == <<env, mainPc, enabled, starts>>
metricVars == <<METRICS, instances, registry, command_total, command_duration, app_up>>
threadVars == <<pc, arg, seen, calls>>
exporterVars == <<listener, srvPc, srvReq, srvTodo, srvMf, inbox, sent, responses, lastResponse>>
serverVars == <<exporterVars, srvQuiet>>

----------------------------------------------------------------------------
(* Bounds of the model *)

NumThreads == 2
MaxCalls == 2
MaxRequests == 2
MaxEnvLen == 3

Threads == 1..NumThreads

(* Inputs *)
(* The three commands of lib.rs; each records ("<name>", "success", elapsed) *)
(* and the elapsed time is one duration per command here.                   *)
Commands == {"greet", "open_devtools", "get_app_version"}
Statuses == {"success"}
CallInputs ==
    { <<"greet", "success", 5>>, <<"open_devtools", "success", 20000>>,
      <<"get_app_version", "success", 7>> }

Requests == { <<"GET", "/metrics">>, <<"POST", "/metrics">>, <<"GET", "/foo">> }

----------------------------------------------------------------------------
(* Small helpers *)

RECURSIVE SumOver(_, _)
SumOver(S, f) ==
    IF S = {} THEN 0
    ELSE LET x == CHOOSE y \in S : TRUE
         IN  f[x] + SumOver(S \ {x}, f)

RECURSIVE SeqsUpTo(_, _)
SeqsUpTo(A, n) ==
    IF n = 0 THEN {<<>>}
    ELSE LET shorter == SeqsUpTo(A, n - 1)
         IN  shorter \cup {Append(s, c) : s \in {x \in shorter : Len(x) = n - 1}, c \in A}

----------------------------------------------------------------------------
(* config.rs *)

EnvVar(v) == [tag |-> "Ok", value |-> v]
Absent == [tag |-> "NotPresent", value |-> <<>>]
NotUnicode == [tag |-> "NotUnicode", value |-> <<>>]

EnvChars == {"1", "0", "y", "e", "s", "Y", "E", "S"}
ExtraEnvValues ==
    { <<"t", "r", "u", "e">>, <<"T", "R", "U", "E">>, <<"T", "r", "u", "e">>,
      <<"t", "R", "u", "E">>, <<"f", "a", "l", "s", "e">>, <<"o", "n">>,
      <<"t", "r", "u", "e", " ">>, <<"y", "e", "s", "1">> }
Present == {EnvVar(v) : v \in SeqsUpTo(EnvChars, MaxEnvLen) \cup ExtraEnvValues}
EnvValues == {Absent, NotUnicode} \cup Present
EnvMain == {Absent, EnvVar(<<"0">>)}

Upper == <<"A", "B", "C", "D", "E", "F", "G", "H", "I", "J", "K", "L", "M",
           "N", "O", "P", "Q", "R", "S", "T", "U", "V", "W", "X", "Y", "Z">>
Lower == <<"a", "b", "c", "d", "e", "f", "g", "h", "i", "j", "k", "l", "m",
           "n", "o", "p", "q", "r", "s", "t", "u", "v", "w", "x", "y", "z">>

char_to_ascii_lowercase(c) ==
    IF \E i \in 1..Len(Upper) : Upper[i] = c
    THEN Lower[CHOOSE i \in 1..Len(Upper) : Upper[i] = c]
    ELSE c

(* Variant: the comparison made on the value as given, case kept.           *)
to_ascii_lowercase_noop(s) == s

to_ascii_lowercase(s) == [i \in 1..Len(s) |-> char_to_ascii_lowercase(s[i])]

IsTruthy(value) ==
    LET v == to_ascii_lowercase(value)
    IN  v = <<"1">> \/ v = <<"t", "r", "u", "e">> \/ v = <<"y", "e", "s">>

(* unwrap_or(true): the value when env::var gives no string.                *)
DefaultEnabled == TRUE

metrics_enabled(e) ==
    IF e.tag = "Ok" THEN IsTruthy(e.value) ELSE DefaultEnabled

----------------------------------------------------------------------------
(* metrics.rs: the static metric definitions of Metrics::new *)

DEFAULT_BUCKETS_MS == <<5, 10, 25, 50, 100, 250, 500, 1000, 2500, 5000, 10000>>
BucketLabels == <<"0.005", "0.01", "0.025", "0.05", "0.1", "0.25", "0.5", "1",
                  "2.5", "5", "10">>
NumBuckets == Len(DEFAULT_BUCKETS_MS)

CounterOpts ==
    [name |-> "tauri_command_total", help |-> "Tauri command total",
     labels |-> <<"command", "status">>]
(* Variant: the histogram declared under the counter's name.                *)
HistogramOptsDup ==
    [name |-> "tauri_command_total", help |-> "Tauri command duration",
     labels |-> <<"command">>]

HistogramOpts ==
    [name |-> "tauri_command_duration_seconds", help |-> "Tauri command duration",
     labels |-> <<"command">>]
GaugeOpts ==
    [name |-> "tauri_app_up", help |-> "Tauri app up", labels |-> <<>>]

AllOpts == {CounterOpts, HistogramOpts, GaugeOpts}
OptsOf(name) == CHOOSE o \in AllOpts : o.name = name
TypeOf(name) ==
    IF name = CounterOpts.name THEN "counter"
    ELSE IF name = HistogramOpts.name THEN "histogram" ELSE "gauge"

(* Desc::new: a descriptor is refused when its name or help is empty or a   *)
(* label name repeats.                                                      *)
ValidOpts(o) ==
    /\ o.name # ""
    /\ o.help # ""
    /\ \A i, j \in 1..Len(o.labels) : o.labels[i] = o.labels[j] => i = j

(* Registry::register: a collector whose descriptor is already registered   *)
(* is refused (AlreadyReg).                                                 *)
CanRegister(reg, name) == \A i \in 1..Len(reg) : reg[i] # name

EmptyHistogram == [counts |-> [i \in 1..NumBuckets |-> 0], sum |-> 0, count |-> 0]

(* MetricVec::with_label_values panics unless it is given one value per     *)
(* declared label.                                                          *)
LabelsMatch(opts, key) == Len(key) = Len(opts.labels)

(* Variant: a vector that keeps only the child asked for last.              *)
with_label_values_single(vec, key, zero) ==
    [k \in {key} |-> IF key \in DOMAIN vec THEN vec[key] ELSE zero]

(* MetricVec::with_label_values: the child of these label values, created   *)
(* with its zero value when it does not exist yet.                          *)
with_label_values(vec, key, zero) ==
    IF key \in DOMAIN vec THEN vec
    ELSE [k \in DOMAIN vec \cup {key} |-> IF k = key THEN zero ELSE vec[k]]

(* Variant: an increment that stores 1 instead of adding 1.                 *)
inc_lost(vec, key) == [vec EXCEPT ![key] = 1]

(* IntCounter::inc *)
inc(vec, key) == [vec EXCEPT ![key] = @ + 1]

(* Variant: a bucket takes only the values strictly below its bound.        *)
BucketOfStrict(v) ==
    IF \E i \in 1..NumBuckets : v < DEFAULT_BUCKETS_MS[i]
    THEN CHOOSE i \in 1..NumBuckets :
            /\ v < DEFAULT_BUCKETS_MS[i]
            /\ \A j \in 1..(i - 1) : ~(v < DEFAULT_BUCKETS_MS[j])
    ELSE 0

(* Histogram::observe: the first bucket whose upper bound is >= v gets the  *)
(* observation (none when v exceeds them all); sum and count always do.     *)
BucketOf(v) ==
    IF \E i \in 1..NumBuckets : v <= DEFAULT_BUCKETS_MS[i]
    THEN CHOOSE i \in 1..NumBuckets :
            /\ v <= DEFAULT_BUCKETS_MS[i]
            /\ \A j \in 1..(i - 1) : ~(v <= DEFAULT_BUCKETS_MS[j])
    ELSE 0

observe(h, v) ==
    [counts |-> [i \in 1..NumBuckets |->
                    IF i = BucketOf(v) THEN h.counts[i] + 1 ELSE h.counts[i]],
     sum |-> h.sum + v,
     count |-> h.count + 1]

----------------------------------------------------------------------------
(* metrics.rs: prometheus::gather() and TextEncoder::encode, as the server  *)
(* loop calls them.                                                         *)

(* String order (Rust's Ord on str) of the names and label values in use.   *)
NameOrder == <<"tauri_app_up", "tauri_command_duration_seconds", "tauri_command_total">>
LabelOrder == <<"get_app_version", "greet", "open_devtools", "success">>
Rank(v) == CHOOSE i \in 1..Len(LabelOrder) : LabelOrder[i] = v

RECURSIVE SeqLess(_, _)
SeqLess(a, b) ==
    IF a = <<>> THEN b # <<>>
    ELSE IF b = <<>> THEN FALSE
    ELSE IF Rank(Head(a)) # Rank(Head(b)) THEN Rank(Head(a)) < Rank(Head(b))
    ELSE SeqLess(Tail(a), Tail(b))

RECURSIVE SortKeys(_)
SortKeys(S) ==
    IF S = {} THEN <<>>
    ELSE LET m == CHOOSE x \in S : \A y \in S \ {x} : SeqLess(x, y)
         IN  <<m>> \o SortKeys(S \ {m})

RECURSIVE Flatten(_)
Flatten(ss) == IF ss = <<>> THEN <<>> ELSE Head(ss) \o Flatten(Tail(ss))

NoFamilies == [counter |-> <<>>, histogram |-> <<>>, gauge |-> <<>>]

(* Collector::collect of one registered collector: a copy of its children.  *)
Collect(mf, name) ==
    IF name = CounterOpts.name THEN [mf EXCEPT !.counter = command_total]
    ELSE IF name = HistogramOpts.name THEN [mf EXCEPT !.histogram = command_duration]
    ELSE [mf EXCEPT !.gauge = <<app_up>>]

MetricsOf(mf, name) ==
    IF name = CounterOpts.name THEN mf.counter
    ELSE IF name = HistogramOpts.name THEN mf.histogram
    ELSE mf.gauge

(* Registry::gather prunes the families that hold no metric and returns the *)
(* others ordered by name.                                                  *)
GatherResult(mf) ==
    SelectSeq(NameOrder, LAMBDA n : DOMAIN MetricsOf(mf, n) # {})

Line(kind, name, suffix, labels, text, value) ==
    [kind |-> kind, name |-> name, suffix |-> suffix, labels |-> labels,
     text |-> text, value |-> value]

Sample(name, suffix, labels, value) == Line("sample", name, suffix, labels, "", value)

HeaderLines(name) ==
    << Line("HELP", name, "", <<>>, OptsOf(name).help, 0),
       Line("TYPE", name, "", <<>>, TypeOf(name), 0) >>

CounterLines(vec) ==
    LET keys == SortKeys(DOMAIN vec)
    IN  [i \in 1..Len(keys) |->
            Sample(CounterOpts.name, "",
                   << <<"command", keys[i][1]>>, <<"status", keys[i][2]>> >>,
                   vec[keys[i]])]

RECURSIVE Cumulative(_, _)
Cumulative(h, i) == IF i = 0 THEN 0 ELSE h.counts[i] + Cumulative(h, i - 1)

HistogramChildLines(cmd, h) ==
    [i \in 1..NumBuckets |->
        Sample(HistogramOpts.name, "_bucket",
               << <<"command", cmd>>, <<"le", BucketLabels[i]>> >>, Cumulative(h, i))]
    \o << Sample(HistogramOpts.name, "_bucket",
                 << <<"command", cmd>>, <<"le", "+Inf">> >>, h.count),
          Sample(HistogramOpts.name, "_sum", << <<"command", cmd>> >>, h.sum),
          Sample(HistogramOpts.name, "_count", << <<"command", cmd>> >>, h.count) >>

HistogramLines(vec) ==
    LET keys == SortKeys(DOMAIN vec)
    IN  Flatten([i \in 1..Len(keys) |-> HistogramChildLines(keys[i][1], vec[keys[i]])])

GaugeLines(g) == [i \in 1..Len(g) |-> Sample(GaugeOpts.name, "", <<>>, g[i])]

FamilyLines(mf, name) ==
    HeaderLines(name) \o
    ( IF name = CounterOpts.name THEN CounterLines(mf.counter)
      ELSE IF name = HistogramOpts.name THEN HistogramLines(mf.histogram)
      ELSE GaugeLines(mf.gauge) )

(* TextEncoder::encode refuses a family that has no metric or no name.      *)
EncodeOk(fams, mf) ==
    \A i \in 1..Len(fams) : fams[i] # "" /\ DOMAIN MetricsOf(mf, fams[i]) # {}

Encode(fams, mf) == Flatten([i \in 1..Len(fams) |-> FamilyLines(mf, fams[i])])

ContentType == "text/plain; version=0.0.4; charset=utf-8"

----------------------------------------------------------------------------
(* Initial state: the process has started, run() has not yet reached setup. *)

NoArg == [command |-> "", status |-> "", duration |-> 0]
NoReq == [id |-> 0, method |-> "", url |-> ""]
NoResponse ==
    [request |-> NoReq, status |-> 0, body |-> <<>>, content_type |-> "",
     encoded |-> "", delivered |-> FALSE]

InitCommon ==
    /\ mainPc = "boot"
    /\ enabled = <<>>
    /\ starts = 0
    /\ METRICS = [state |-> "incomplete", owner |-> 0, inst |-> 0]
    /\ instances = 0
    /\ registry = <<>>
    /\ command_total = <<>>
    /\ command_duration = <<>>
    /\ app_up = 0
    /\ pc = [t \in Threads |-> "idle"]
    /\ arg = [t \in Threads |-> NoArg]
    /\ seen = [t \in Threads |-> 0]
    /\ calls = [c \in CallInputs |-> 0]
    /\ listener = "none"
    /\ srvPc = "none"
    /\ srvReq = NoReq
    /\ srvTodo = {}
    /\ srvMf = NoFamilies
    /\ srvQuiet = FALSE
    /\ inbox = <<>>
    /\ sent = 0
    /\ responses = <<>>
    /\ lastResponse = NoResponse

Init == env \in EnvMain /\ InitCommon

Alive == mainPc \notin {"exited", "panicked"}
Quiescent == \A t \in Threads : pc[t] = "idle"
CallsMade == SumOver(CallInputs, calls)

----------------------------------------------------------------------------
(* lib.rs: run() *)

(* The setup closure: reads the flag and, when it is set, calls             *)
(* start_metrics_server, which spawns the exporter thread.                  *)
(* thread::spawn either starts the thread or, when the OS refuses one,      *)
(* panics in the caller: the panic unwinds out of setup on the main thread  *)
(* and the process ends with no exporter thread.                            *)
start_metrics_server ==
    /\ starts' = starts + 1
    /\ \E spawned \in BOOLEAN :
          IF spawned
          THEN srvPc' = "bind" /\ mainPc' = "in_start_metrics_server"
          ELSE srvPc' = srvPc /\ mainPc' = "panicked"

(* Variant: the server is started whatever the flag says.                   *)
SetupUnconditional ==
    /\ mainPc = "boot"
    /\ enabled' = <<metrics_enabled(env)>>
    /\ start_metrics_server
    /\ UNCHANGED <<env, listener, srvReq, srvTodo, srvMf, srvQuiet, inbox, sent, responses, lastResponse>>
    /\ UNCHANGED <<metricVars, threadVars>>

Setup ==
    /\ mainPc = "boot"
    /\ enabled' = <<metrics_enabled(env)>>
    /\ IF metrics_enabled(env)
       THEN start_metrics_server
       ELSE mainPc' = "running" /\ srvPc' = srvPc /\ starts' = starts
    /\ UNCHANGED <<env, listener, srvReq, srvTodo, srvMf, srvQuiet, inbox, sent, responses, lastResponse>>
    /\ UNCHANGED <<metricVars, threadVars>>

(* thread::spawn has returned its handle, which is dropped: the call        *)
(* returns whatever the spawned thread is doing.                            *)
CanReturnFromStart == mainPc = "in_start_metrics_server"

StartReturn ==
    /\ CanReturnFromStart
    /\ mainPc' = "running"
    /\ UNCHANGED <<env, enabled, starts, metricVars, threadVars, serverVars>>

(* The application ends: the process exits and takes every thread with it.  *)
(* The metrics code has no stop of its own.                                 *)
Exit ==
    /\ mainPc = "running"
    /\ mainPc' = "exited"
    /\ srvPc' = IF srvPc \in {"none", "exited", "loop_ended"} THEN srvPc ELSE "stopped"
    /\ UNCHANGED <<env, enabled, starts, listener, srvReq, srvTodo, srvMf, srvQuiet, inbox, sent, responses, lastResponse>>
    /\ UNCHANGED <<metricVars, threadVars>>

----------------------------------------------------------------------------
(* metrics.rs: METRICS (once_cell Lazy) and Metrics::new *)

(* Variant: a check-then-initialise cell, which a second caller enters      *)
(* while the first is still initialising.                                   *)
LazyNeedsInitRacy(cell) == cell.state \in {"incomplete", "running"}

(* Lazy::force runs the initialiser only for the caller that finds the cell *)
(* incomplete; a caller that finds another one initialising waits.          *)
LazyNeedsInit(cell) == cell.state = "incomplete"
LazyMustWait(cell) == cell.state = "running"

(* A panic inside the initialiser poisons the cell and unwinds the caller.  *)
PanicInNew(t) ==
    /\ METRICS' = [METRICS EXCEPT !.state = "poisoned"]
    /\ pc' = [pc EXCEPT ![t] = "panicked"]

(* The dereference of METRICS at the head of observe_command.  For the      *)
(* first caller this enters Metrics::new and builds the three metrics.      *)
Deref(t) ==
    /\ Alive
    /\ pc[t] = "deref"
    /\ IF LazyNeedsInit(METRICS)
       THEN /\ instances' = instances + 1
            /\ IF \A o \in AllOpts : ValidOpts(o)
               THEN /\ METRICS' = [state |-> "running", owner |-> t, inst |-> 0]
                    /\ command_total' = <<>>
                    /\ command_duration' = <<>>
                    /\ app_up' = 0
                    /\ pc' = [pc EXCEPT ![t] = "register_counter"]
               ELSE /\ PanicInNew(t)
                    /\ UNCHANGED <<command_total, command_duration, app_up>>
            /\ seen' = seen
       ELSE /\ ~LazyMustWait(METRICS)
            /\ IF METRICS.state = "poisoned"
               THEN pc' = [pc EXCEPT ![t] = "panicked"] /\ seen' = seen
               ELSE /\ pc' = [pc EXCEPT ![t] = "total"]
                    /\ seen' = [seen EXCEPT ![t] = METRICS.inst]
            /\ UNCHANGED <<METRICS, instances, command_total, command_duration, app_up>>
    /\ UNCHANGED <<registry, arg, calls, hostVars, serverVars>>

(* Variant: the read lock kept until the gathered families are encoded.     *)
RegistryWritableAfterEncode == srvPc \notin {"gather", "encode"}

(* prometheus::register(...).expect(...): takes the registry's write lock,  *)
(* which gather() holds for reading while it collects.                      *)
RegistryWritable == srvPc # "gather"

RegisterStep(t, at, name, next) ==
    /\ Alive
    /\ pc[t] = at
    /\ RegistryWritable
    /\ IF CanRegister(registry, name)
       THEN /\ registry' = Append(registry, name)
            /\ pc' = [pc EXCEPT ![t] = next]
            /\ METRICS' = METRICS
       ELSE /\ PanicInNew(t)
            /\ registry' = registry
    /\ UNCHANGED <<instances, command_total, command_duration, app_up>>
    /\ UNCHANGED <<arg, seen, calls, hostVars, serverVars>>

RegisterCounter(t) ==
    RegisterStep(t, "register_counter", CounterOpts.name, "register_histogram")
RegisterHistogram(t) ==
    RegisterStep(t, "register_histogram", HistogramOpts.name, "register_gauge")
RegisterGauge(t) ==
    RegisterStep(t, "register_gauge", GaugeOpts.name, "set_up")

(* Variant: the instance is returned without app_up.set(1).                 *)
FinishNewWithoutSet(t) ==
    /\ Alive
    /\ pc[t] = "set_up"
    /\ app_up' = app_up
    /\ METRICS' = [state |-> "complete", owner |-> 0, inst |-> instances]
    /\ seen' = [seen EXCEPT ![t] = instances]
    /\ pc' = [pc EXCEPT ![t] = "total"]
    /\ UNCHANGED <<instances, registry, command_total, command_duration>>
    /\ UNCHANGED <<arg, calls, hostVars, serverVars>>

(* app_up.set(1), the value is returned and the cell holds it.              *)
FinishNew(t) ==
    /\ Alive
    /\ pc[t] = "set_up"
    /\ app_up' = 1
    /\ METRICS' = [state |-> "complete", owner |-> 0, inst |-> instances]
    /\ seen' = [seen EXCEPT ![t] = instances]
    /\ pc' = [pc EXCEPT ![t] = "total"]
    /\ UNCHANGED <<instances, registry, command_total, command_duration>>
    /\ UNCHANGED <<arg, calls, hostVars, serverVars>>

----------------------------------------------------------------------------
(* metrics.rs: observe_command, called by the host's commands (lib.rs)      *)

Call(t, c, s, d) ==
    /\ mainPc = "running"
    /\ pc[t] = "idle"
    /\ CallsMade < MaxCalls
    /\ arg' = [arg EXCEPT ![t] = [command |-> c, status |-> s, duration |-> d]]
    /\ calls' = [calls EXCEPT ![<<c, s, d>>] = @ + 1]
    /\ pc' = [pc EXCEPT ![t] = "deref"]
    /\ srvQuiet' = FALSE
    /\ UNCHANGED <<seen, hostVars, metricVars, exporterVars>>

TotalKey(t) == <<arg[t].command, arg[t].status>>

(* Variant: the histogram child taken by the status instead of the command. *)
DurationKeyByStatus(t) == <<arg[t].status>>

DurationKey(t) == <<arg[t].command>>

(* METRICS.command_total.with_label_values(&[command, status]): the child   *)
(* is looked up, or created at 0, under the vector's lock, which is then    *)
(* released.                                                                *)
TotalChild(t) ==
    /\ Alive
    /\ pc[t] = "total"
    /\ IF LabelsMatch(CounterOpts, TotalKey(t))
       THEN /\ command_total' = with_label_values(command_total, TotalKey(t), 0)
            /\ pc' = [pc EXCEPT ![t] = "inc"]
       ELSE /\ command_total' = command_total
            /\ pc' = [pc EXCEPT ![t] = "panicked"]
    /\ UNCHANGED <<METRICS, instances, registry, command_duration, app_up>>
    /\ UNCHANGED <<arg, seen, calls, hostVars, serverVars>>

(* .inc() on that child.                                                    *)
ObserveTotal(t) ==
    /\ Alive
    /\ pc[t] = "inc"
    /\ command_total' = inc(command_total, TotalKey(t))
    /\ pc' = [pc EXCEPT ![t] = "duration"]
    /\ UNCHANGED <<METRICS, instances, registry, command_duration, app_up>>
    /\ UNCHANGED <<arg, seen, calls, hostVars, serverVars>>

(* METRICS.command_duration.with_label_values(&[command]): the histogram    *)
(* child is looked up, or created empty.                                    *)
DurationChild(t) ==
    /\ Alive
    /\ pc[t] = "duration"
    /\ IF LabelsMatch(HistogramOpts, DurationKey(t))
       THEN /\ command_duration' =
                  with_label_values(command_duration, DurationKey(t), EmptyHistogram)
            /\ pc' = [pc EXCEPT ![t] = "observe"]
       ELSE /\ command_duration' = command_duration
            /\ pc' = [pc EXCEPT ![t] = "panicked"]
    /\ UNCHANGED <<METRICS, instances, registry, command_total, app_up>>
    /\ UNCHANGED <<arg, seen, calls, hostVars, serverVars>>

(* .observe(duration_seconds) on that child; observe_command returns.       *)
ObserveDuration(t) ==
    /\ Alive
    /\ pc[t] = "observe"
    /\ command_duration' =
          [command_duration EXCEPT ![DurationKey(t)] = observe(@, arg[t].duration)]
    /\ pc' = [pc EXCEPT ![t] = "idle"]
    /\ arg' = [arg EXCEPT ![t] = NoArg]
    /\ UNCHANGED <<METRICS, instances, registry, command_total, app_up>>
    /\ UNCHANGED <<seen, calls, hostVars, serverVars>>

----------------------------------------------------------------------------
(* metrics.rs: the thread spawned by start_metrics_server *)

(* Variant: a failed bind is tried again.                                   *)
AfterBindRetry(ok) == IF ok THEN "accept" ELSE "bind"

(* Server::http(address): Ok starts the loop, Err ends the thread.          *)
AfterBind(ok) == IF ok THEN "accept" ELSE "exited"

Bind ==
    /\ Alive
    /\ srvPc = "bind"
    /\ \E ok \in BOOLEAN :
          /\ listener' = IF ok THEN "bound" ELSE "failed"
          /\ srvPc' = AfterBind(ok)
    /\ UNCHANGED <<srvReq, srvTodo, srvMf, srvQuiet, inbox, sent, responses, lastResponse>>
    /\ UNCHANGED <<hostVars, metricVars, threadVars>>

(* The message the server queues when accepting a connection fails.         *)
AcceptError == [id |-> 0, method |-> "", url |-> "accept error"]

(* accept() on the listening socket fails: the server's accept thread       *)
(* queues the error behind the requests already queued and stops accepting. *)
ListenerFails ==
    /\ Alive
    /\ listener = "bound"
    /\ listener' = "broken"
    /\ inbox' = Append(inbox, AcceptError)
    /\ UNCHANGED <<srvPc, srvReq, srvTodo, srvMf, srvQuiet, sent, responses, lastResponse>>
    /\ UNCHANGED <<hostVars, metricVars, threadVars>>

(* A client's request reaches the server: on a new connection while the     *)
(* listener accepts, or on a connection it had accepted before it broke.    *)
ClientRequest(m, u) ==
    /\ Alive
    /\ listener \in {"bound", "broken"}
    /\ srvPc # "loop_ended"
    /\ sent < MaxRequests
    /\ sent' = sent + 1
    /\ inbox' = Append(inbox, [id |-> sent + 1, method |-> m, url |-> u])
    /\ UNCHANGED <<listener, srvPc, srvReq, srvTodo, srvMf, srvQuiet, responses, lastResponse>>
    /\ UNCHANGED <<hostVars, metricVars, threadVars>>

(* Variant: the request that arrived last is handed out first.              *)
DequeueNewest(q) == [req |-> q[Len(q)], rest |-> SubSeq(q, 1, Len(q) - 1)]

(* The iterator hands out the requests of the server's queue oldest first.  *)
Dequeue(q) == [req |-> Head(q), rest |-> Tail(q)]

(* server.incoming_requests(): blocks until the queue has a message.  A     *)
(* request enters the loop body; the accept error ends the iterator, the    *)
(* `for` loop and with it the thread.                                       *)
Accept ==
    /\ Alive
    /\ srvPc = "accept"
    /\ inbox # <<>>
    /\ inbox' = Dequeue(inbox).rest
    /\ IF Dequeue(inbox).req = AcceptError
       THEN srvPc' = "loop_ended" /\ srvReq' = srvReq
       ELSE srvPc' = "route" /\ srvReq' = Dequeue(inbox).req
    /\ UNCHANGED <<listener, srvTodo, srvMf, srvQuiet, sent, responses, lastResponse>>
    /\ UNCHANGED <<hostVars, metricVars, threadVars>>

TextBody(text) == << Line("text", "", "", <<>>, text, 0) >>

(* `continue` and the end of the loop body: back to incoming_requests().    *)
AfterRespond == "accept"

(* Variant: respond(...).unwrap(), a failed delivery ends the thread.        *)
AfterRespondUnwrap(delivered) == IF delivered THEN AfterRespond ELSE "exited"

(* `let _ = ...`: the Result of respond is dropped, the loop goes on.       *)
AfterRespondResult(delivered) == AfterRespond

(* A response as issued; `encoded` is history: the Result of encoder.encode *)
(* for this request ("" when it was not called).                            *)
Response(req, status, body, ctype, encoded, delivered) ==
    [request |-> req, status |-> status, body |-> body,
     content_type |-> ctype, encoded |-> encoded, delivered |-> delivered]

(* `let _ = request.respond(response)`: the response is issued; whether it  *)
(* reaches the client is ignored, and the thread is back at the loop head.  *)
Respond(status, body, ctype, encoded) ==
    /\ responses' = Append(responses, [id |-> srvReq.id, status |-> status])
    /\ \E delivered \in BOOLEAN :
          /\ lastResponse' = Response(srvReq, status, body, ctype, encoded, delivered)
          /\ srvPc' = AfterRespondResult(delivered)

(* Variant: the path test inverted.                                         *)
IsMetricsRequestInverted(req) == req.url # "/metrics"

IsMetricsRequest(req) == req.url = "/metrics"

(* The head of the loop body: the 404 branch, or the start of gather().     *)
Route ==
    /\ Alive
    /\ srvPc = "route"
    /\ IF ~IsMetricsRequest(srvReq)
       THEN /\ Respond(404, TextBody("not found"), "text/plain; charset=UTF-8", "")
            /\ srvReq' = NoReq
            /\ UNCHANGED <<srvTodo, srvMf, srvQuiet>>
       ELSE /\ srvTodo' = {registry[i] : i \in 1..Len(registry)}
            /\ srvMf' = NoFamilies
            /\ srvQuiet' = Quiescent
            /\ srvPc' = IF registry = <<>> THEN "encode" ELSE "gather"
            /\ UNCHANGED <<srvReq, responses, lastResponse>>
    /\ UNCHANGED <<listener, inbox, sent>>
    /\ UNCHANGED <<hostVars, metricVars, threadVars>>

(* Variant: a gather that reads the counters and resets them.               *)
GatherCollectAndReset ==
    /\ Alive
    /\ srvPc = "gather"
    /\ \E n \in srvTodo :
          /\ srvMf' = Collect(srvMf, n)
          /\ srvTodo' = srvTodo \ {n}
          /\ srvPc' = IF srvTodo \ {n} = {} THEN "encode" ELSE "gather"
    /\ command_total' = [k \in DOMAIN command_total |-> 0]
    /\ UNCHANGED <<METRICS, instances, registry, command_duration, app_up>>
    /\ UNCHANGED <<listener, srvReq, srvQuiet, inbox, sent, responses, lastResponse>>
    /\ UNCHANGED <<hostVars, threadVars>>

(* prometheus::gather(): the registered collectors are collected one after  *)
(* the other, each atomically, under the registry's read lock.              *)
GatherCollect ==
    /\ Alive
    /\ srvPc = "gather"
    /\ \E n \in srvTodo :
          /\ srvMf' = Collect(srvMf, n)
          /\ srvTodo' = srvTodo \ {n}
          /\ srvPc' = IF srvTodo \ {n} = {} THEN "encode" ELSE "gather"
    /\ UNCHANGED <<listener, srvReq, srvQuiet, inbox, sent, responses, lastResponse>>
    /\ UNCHANGED <<hostVars, metricVars, threadVars>>

(* Variant: with_status_code(500) left out, the error answered as 200.       *)
StatusAfterEncodeDefault(ok) == 200

(* Response::from_data answers 200; the error response is given 500.        *)
StatusAfterEncode(ok) == IF ok THEN 200 ELSE 500

(* The loop body from encoder.encode on, `ok` being the Result of encode:   *)
(* the 500 or the 200 response, and back to the head of the loop.           *)
EncodeRespondWith(ok) ==
    /\ Alive
    /\ srvPc = "encode"
    /\ IF ~ok
       THEN Respond(StatusAfterEncode(ok), TextBody("encode error"),
                    "text/plain; charset=UTF-8", "err")
       ELSE Respond(StatusAfterEncode(ok), Encode(GatherResult(srvMf), srvMf),
                    ContentType, "ok")
    /\ srvReq' = NoReq
    /\ srvMf' = NoFamilies
    /\ srvQuiet' = FALSE
    /\ UNCHANGED <<listener, srvTodo, inbox, sent>>
    /\ UNCHANGED <<hostVars, metricVars, threadVars>>

(* encoder.encode(&metric_families, &mut buffer) on what gather() returned. *)
EncodeRespond == EncodeRespondWith(EncodeOk(GatherResult(srvMf), srvMf))

(* The same step with the Result of encode left open: Err also when the     *)
(* families are well formed (an error of the writer).                       *)
EncodeRespondFault ==
    \E written \in BOOLEAN :
        EncodeRespondWith(written /\ EncodeOk(GatherResult(srvMf), srvMf))

----------------------------------------------------------------------------
(* The system *)

(* The steps of a host thread inside observe_command.                       *)
Running(t) ==
    \/ Deref(t)
    \/ RegisterCounter(t)
    \/ RegisterHistogram(t)
    \/ RegisterGauge(t)
    \/ FinishNew(t)
    \/ TotalChild(t)
    \/ ObserveTotal(t)
    \/ DurationChild(t)
    \/ ObserveDuration(t)

HostThread(t) ==
    \/ \E i \in CallInputs : Call(t, i[1], i[2], i[3])
    \/ Running(t)

Exporter ==
    \/ Bind
    \/ ListenerFails
    \/ \E r \in Requests : ClientRequest(r[1], r[2])
    \/ Accept
    \/ Route
    \/ GatherCollect
    \/ EncodeRespond

(* The whole program: every command on every thread, every request, the    *)
(* failures of the listener, and the exit of the application.               *)
Next ==
    \/ Setup
    \/ StartReturn
    \/ \E t \in Threads : HostThread(t)
    \/ Exporter
    \/ Exit

Spec == Init /\ [][Next]_vars

(* The recording side: every command on every thread, against an exporter  *)
(* that is scraped (GET /metrics) and whose listener keeps accepting.       *)
NextRecord ==
    \/ Setup
    \/ StartReturn
    \/ \E t \in Threads : HostThread(t)
    \/ Bind
    \/ ClientRequest("GET", "/metrics")
    \/ Accept
    \/ Route
    \/ GatherCollect
    \/ EncodeRespond

SpecRecord == Init /\ [][NextRecord]_vars

(* The recording side with two of the commands, a fast and a slow one,      *)
(* called from every thread.                                                *)
ReturnInputs == { <<"greet", "success", 5>>, <<"open_devtools", "success", 20000>> }

NextReturn ==
    \/ Setup
    \/ StartReturn
    \/ \E t \in Threads :
          \/ \E i \in ReturnInputs : Call(t, i[1], i[2], i[3])
          \/ Running(t)
    \/ Bind
    \/ ClientRequest("GET", "/metrics")
    \/ Accept
    \/ Route
    \/ GatherCollect
    \/ EncodeRespond

SpecReturn == Init /\ [][NextReturn]_vars

(* Scheduling: a host thread inside observe_command keeps being run, and    *)
(* so does the exporter thread while it is inside gather(), where it waits  *)
(* for nothing.  Nothing is assumed of the exporter elsewhere: it may sit   *)
(* in incoming_requests(), in encode or in respond for ever, and commands   *)
(* and requests need not come.                                              *)
SpecReturnFair ==
    /\ SpecReturn
    /\ \A t \in Threads : WF_vars(Running(t))
    /\ WF_vars(GatherCollect)

(* The serving side: every kind of request, a listener that can fail, and  *)
(* the Result of encode left open (in Spec encode never returns Err:        *)
(* gather() prunes the families the encoder refuses and the write into the  *)
(* Vec cannot fail), against one host thread that records greet calls.      *)
ServeInput == <<"greet", "success", 5>>
ServeThread == 1

NextServe ==
    \/ Setup
    \/ StartReturn
    \/ Call(ServeThread, ServeInput[1], ServeInput[2], ServeInput[3])
    \/ Running(ServeThread)
    \/ Bind
    \/ ListenerFails
    \/ \E r \in Requests : ClientRequest(r[1], r[2])
    \/ Accept
    \/ Route
    \/ GatherCollect
    \/ EncodeRespondFault

SpecServe == Init /\ [][NextServe]_vars

(* The serving side to the end of the process.                              *)
NextServeLife == NextServe \/ Exit
SpecServeLife == Init /\ [][NextServeLife]_vars

(* Scheduling of the exporter thread: it keeps being run through the loop   *)
(* (taking a waiting message, routing, gathering, encoding, answering).     *)
(* Clients and commands need not come.                                      *)
SpecServeFair ==
    /\ SpecServe
    /\ WF_vars(Accept)
    /\ WF_vars(Route)
    /\ WF_vars(GatherCollect)
    /\ WF_vars(EncodeRespondFault)

(* The configuration alone, over every environment value of the bound.      *)
InitConfig == env \in EnvValues /\ InitCommon
NextConfig == Setup \/ StartReturn
SpecConfig == InitConfig /\ [][NextConfig]_vars

----------------------------------------------------------------------------
(* Reading an exposition body and the call history *)

Samples(body, name, suffix, labels) ==
    { i \in 1..Len(body) :
        /\ body[i].kind = "sample"
        /\ body[i].name = name
        /\ body[i].suffix = suffix
        /\ body[i].labels = labels }

(* The body holds exactly one sample of this series and its value is v.     *)
Exports(body, name, suffix, labels, v) ==
    /\ Cardinality(Samples(body, name, suffix, labels)) = 1
    /\ \A i \in Samples(body, name, suffix, labels) : body[i].value = v

HasFamily(body, name) ==
    \E i \in 1..Len(body) : body[i].kind = "TYPE" /\ body[i].name = name

TotalLabelsOf(c, s) == << <<"command", c>>, <<"status", s>> >>
BucketLabelsOf(c, le) == << <<"command", c>>, <<"le", le>> >>
CommandLabelOf(c) == << <<"command", c>> >>

CallsWith(c, s) == SumOver({i \in CallInputs : i[1] = c /\ i[2] = s}, calls)
DurationsOf(c) == SumOver({i \in CallInputs : i[1] = c}, calls)
DurationsUpTo(c, b) == SumOver({i \in CallInputs : i[1] = c /\ i[3] <= b}, calls)
SumOfDurations(c) ==
    SumOver({i \in CallInputs : i[1] = c}, [i \in CallInputs |-> calls[i] * i[3]])

CounterValue(c, s) ==
    IF <<c, s>> \in DOMAIN command_total THEN command_total[<<c, s>>] ELSE 0

(* The step in which the exporter answers a scrape that it gathered while   *)
(* no observe_command call was in progress.                                 *)
QuietScrapeAnswered == srvPc = "encode" /\ srvPc' = "accept" /\ srvQuiet

InMetricsNew(t) ==
    pc[t] \in {"register_counter", "register_histogram", "register_gauge", "set_up"}

----------------------------------------------------------------------------
(* C1: once every observe_command call has returned, a scrape exports for   *)
(* each (command, status) pair exactly the number of calls made with that   *)
(* pair: one sample with that count, and no sample for a pair never used.   *)
C1_ExportedCountersExact ==
    [][ QuietScrapeAnswered =>
          /\ lastResponse'.status = 200
          /\ \A c \in Commands, s \in Statuses :
                IF CallsWith(c, s) = 0
                THEN Samples(lastResponse'.body, CounterOpts.name, "", TotalLabelsOf(c, s)) = {}
                ELSE Exports(lastResponse'.body, CounterOpts.name, "",
                             TotalLabelsOf(c, s), CallsWith(c, s)) ]_vars

(* Both threads have called observe_command("greet", "success", _) and a    *)
(* scrape answered afterwards shows 2.                                      *)
C1_Witness ==
    /\ Quiescent
    /\ \A t \in Threads : seen[t] = 1
    /\ calls[<<"greet", "success", 5>>] = 2
    /\ lastResponse.status = 200
    /\ Exports(lastResponse.body, CounterOpts.name, "",
               TotalLabelsOf("greet", "success"), 2)

(* C2: a /metrics request answered before any observe_command call gets 200 *)
(* and the baseline families: counter and histogram families with nothing   *)
(* but zero counts, and the up gauge at 1.                                  *)
IsBaseline(body) ==
    /\ Exports(body, GaugeOpts.name, "", <<>>, 1)
    /\ HasFamily(body, CounterOpts.name)
    /\ HasFamily(body, HistogramOpts.name)
    /\ \A i \in 1..Len(body) :
          (body[i].kind = "sample" /\ body[i].name # GaugeOpts.name) => body[i].value = 0

C2_ScrapeBeforeAnyCallIsBaseline ==
    [][ (srvPc = "encode" /\ srvPc' = "accept" /\ CallsMade = 0
            /\ lastResponse'.delivered) =>
          /\ lastResponse'.status = 200
          /\ IsBaseline(lastResponse'.body) ]_vars

(* C3: no observe_command call ever panics, the first one (which builds the *)
(* registry) included, and the cell is never left poisoned for later calls. *)
C3_ObserveNeverFails ==
    /\ \A t \in Threads : pc[t] # "panicked"
    /\ METRICS.state # "poisoned"
    /\ (\E t \in Threads : pc[t] \in {"total", "inc", "duration", "observe"}) =>
          METRICS.state = "complete"

(* The call that built the registry and a later call have both returned.    *)
C3_Witness ==
    /\ Quiescent
    /\ CallsMade = 2
    /\ METRICS.state = "complete"
    /\ \E t \in Threads : seen[t] = 1
    /\ SumOver(DOMAIN command_total, command_total) = 2

(* C4: only a GET of /metrics is answered with the exposition; any other    *)
(* path or method is answered 404.                                          *)
C4_OnlyGetMetricsIsExposed ==
    (lastResponse.status # 0 /\ lastResponse.delivered) =>
        LET r == lastResponse.request
        IN  IF r.method = "GET" /\ r.url = "/metrics"
            THEN lastResponse.status # 404
            ELSE lastResponse.status = 404

(* C5: metrics_enabled() is true exactly for "1", "true", "yes" in any      *)
(* letter case and for an unset or non-Unicode variable; it is false for    *)
(* every other value.                                                       *)
TruthyWords == { <<"1">>, <<"t", "r", "u", "e">>, <<"y", "e", "s">> }

UpperOf(c) ==
    IF \E i \in 1..Len(Lower) : Lower[i] = c
    THEN Upper[CHOOSE i \in 1..Len(Lower) : Lower[i] = c]
    ELSE c

CaseVariantOf(v, word) ==
    /\ Len(v) = Len(word)
    /\ \A i \in 1..Len(word) : v[i] = word[i] \/ v[i] = UpperOf(word[i])

SaysTruthy(e) == e.tag = "Ok" /\ \E w \in TruthyWords : CaseVariantOf(e.value, w)

C5_EnabledForTruthyOrUnset ==
    enabled # <<>> => (enabled[1] <=> (SaysTruthy(env) \/ env.tag # "Ok"))

C5_Witness ==
    /\ env = EnvVar(<<"0">>)
    /\ enabled = <<FALSE>>

(* C5 as stated: true for the truthy words, and the default (true) for      *)
(* every other value and for an absent variable.                            *)
C5_OtherValuesYieldDefault ==
    enabled # <<>> =>
        enabled[1] = (IF SaysTruthy(env) THEN TRUE ELSE DefaultEnabled)


(* C6: once every observe_command call has returned, a scrape exports for   *)
(* each command the cumulative bucket counts (durations <= the bound), the  *)
(* total count and the sum of the durations recorded for it, whatever their *)
(* status labels and the order of the calls.                                *)
HistogramExportedFor(body, c) ==
    /\ \A i \in 1..NumBuckets :
          Exports(body, HistogramOpts.name, "_bucket",
                  BucketLabelsOf(c, BucketLabels[i]),
                  DurationsUpTo(c, DEFAULT_BUCKETS_MS[i]))
    /\ Exports(body, HistogramOpts.name, "_bucket", BucketLabelsOf(c, "+Inf"), DurationsOf(c))
    /\ Exports(body, HistogramOpts.name, "_count", CommandLabelOf(c), DurationsOf(c))
    /\ Exports(body, HistogramOpts.name, "_sum", CommandLabelOf(c), SumOfDurations(c))

C6_ExportedHistogramExact ==
    [][ QuietScrapeAnswered =>
          \A c \in Commands :
             IF DurationsOf(c) = 0
             THEN Samples(lastResponse'.body, HistogramOpts.name, "_count", CommandLabelOf(c)) = {}
             ELSE HistogramExportedFor(lastResponse'.body, c) ]_vars

(* "greet" was recorded with 5 ms and "get_app_version" with 7 ms: the      *)
(* scrape shows greet at the 0.005 bound, get_app_version only from the     *)
(* 0.01 bound on, and their counts and sums.                                *)
C6_Witness ==
    /\ calls[<<"greet", "success", 5>>] = 1
    /\ calls[<<"get_app_version", "success", 7>>] = 1
    /\ lastResponse.status = 200
    /\ Exports(lastResponse.body, HistogramOpts.name, "_bucket",
               BucketLabelsOf("greet", "0.005"), 1)
    /\ Exports(lastResponse.body, HistogramOpts.name, "_bucket",
               BucketLabelsOf("get_app_version", "0.005"), 0)
    /\ Exports(lastResponse.body, HistogramOpts.name, "_bucket",
               BucketLabelsOf("get_app_version", "0.01"), 1)
    /\ Exports(lastResponse.body, HistogramOpts.name, "_count", CommandLabelOf("greet"), 1)
    /\ Exports(lastResponse.body, HistogramOpts.name, "_sum", CommandLabelOf("greet"), 5)
    /\ Exports(lastResponse.body, HistogramOpts.name, "_sum",
               CommandLabelOf("get_app_version"), 7)

(* C7: when the bind fails the exporter thread has ended for good: nothing  *)
(* is ever accepted or answered, the caller of start_metrics_server is not  *)
(* held or failed, and observe_command goes on counting every call.         *)
C7_BindFailureDegradesSilently ==
    listener = "failed" =>
        /\ srvPc = "exited"
        /\ inbox = <<>> /\ responses = <<>> /\ lastResponse = NoResponse
        /\ mainPc \in {"in_start_metrics_server", "running"}
        /\ (mainPc = "in_start_metrics_server" => CanReturnFromStart)
        /\ \A t \in Threads : pc[t] # "panicked"
        /\ Quiescent =>
              \A c \in Commands, s \in Statuses : CounterValue(c, s) = CallsWith(c, s)

C7_Witness ==
    /\ listener = "failed"
    /\ mainPc = "running"
    /\ Quiescent
    /\ CallsMade = 2
    /\ CounterValue("greet", "success") = 2

(* C8: however many threads make the first access together, Metrics::new    *)
(* is entered once, each family is registered once, and every accessor gets *)
(* that one instance.                                                       *)
C8_ConstructedExactlyOnce ==
    /\ instances <= 1
    /\ Cardinality({t \in Threads : InMetricsNew(t)}) <= 1
    /\ \A i, j \in 1..Len(registry) : registry[i] = registry[j] => i = j
    /\ \A t \in Threads : seen[t] \in {0, 1}
    /\ METRICS.state = "complete" =>
          /\ instances = 1
          /\ METRICS.inst = 1
          /\ registry = <<CounterOpts.name, HistogramOpts.name, GaugeOpts.name>>

(* One thread is at the end of Metrics::new while the other, which also     *)
(* made its first access, waits on the cell.                                *)
C8_Witness ==
    \E t, u \in Threads :
        /\ t # u
        /\ pc[t] = "set_up"
        /\ pc[u] = "deref"
        /\ seen[u] = 0
        /\ Len(registry) = 3

(* C9: in every state reached after start_metrics_server was called and in  *)
(* which its caller has not yet got control back, the caller's return is    *)
(* enabled, whatever the exporter thread is doing.                          *)
C9_StartDoesNotBlock ==
    (starts = 1 /\ mainPc \notin {"running", "exited"}) => ENABLED StartReturn

(* C10: a request for another path than /metrics is answered 404 with the   *)
(* body "not found", and gather() and encode() are not run for it.          *)
C10_OtherPathsNotFound ==
    /\ (srvPc \in {"gather", "encode"} => srvReq.url = "/metrics")
    /\ (lastResponse.status # 0 /\ lastResponse.request.url # "/metrics") =>
          /\ lastResponse.status = 404
          /\ lastResponse.body = TextBody("not found")
          /\ lastResponse.body # <<>>

C10_Witness ==
    /\ lastResponse.request.url = "/foo"
    /\ lastResponse.status = 404
    /\ lastResponse.body = TextBody("not found")

(* C11: with the flag false start_metrics_server is never called and the    *)
(* exporter thread does not exist for the whole life of the process: no     *)
(* listener, no request accepted, no response.  With the flag true it is    *)
(* called once, in the setup of run(), and never again.                     *)
C11_StartedOnlyWhenEnabled ==
    /\ starts <= 1
    /\ mainPc = "boot" => starts = 0
    /\ enabled = <<FALSE>> =>
          /\ starts = 0
          /\ srvPc = "none" /\ listener = "none"
          /\ sent = 0 /\ inbox = <<>> /\ responses = <<>> /\ lastResponse = NoResponse
    /\ enabled = <<TRUE>> => starts = 1
    /\ srvPc # "none" => enabled = <<TRUE>>
    /\ mainPc = "in_start_metrics_server" => enabled = <<TRUE>>

(* The flag was false and the process ran to its end, commands included.    *)
C11_Witness ==
    /\ enabled = <<FALSE>>
    /\ mainPc = "exited"
    /\ CallsMade = 2
    /\ Quiescent
    /\ CounterValue("greet", "success") = 2

(* C12: when encoder.encode fails for a /metrics request, that request is   *)
(* answered 500 with the body "encode error", the step changes nothing of   *)
(* the registry (cell, collectors, counters, histograms, gauge), and the    *)
(* exporter is back at the head of its loop, on the same listener and       *)
(* queue, to take the next request.                                         *)
EncodeFailedStep ==
    srvPc = "encode" /\ srvPc' # "encode" /\ lastResponse'.encoded = "err"

C12_EncodeFailureAnswered500 ==
    [][ EncodeFailedStep =>
          /\ srvReq.url = "/metrics"
          /\ lastResponse'.request = srvReq
          /\ lastResponse'.status = 500
          /\ lastResponse'.body = TextBody("encode error")
          /\ responses' = Append(responses, [id |-> srvReq.id, status |-> 500])
          /\ UNCHANGED metricVars
          /\ srvPc' = "accept"
          /\ listener' = listener /\ inbox' = inbox ]_vars

(* The first scrape failed in the encoder and was answered 500; the second, *)
(* made after two calls, was served with their counts.                      *)
C12_Witness ==
    /\ responses = << [id |-> 1, status |-> 500], [id |-> 2, status |-> 200] >>
    /\ lastResponse.encoded = "ok"
    /\ Exports(lastResponse.body, CounterOpts.name, "", TotalLabelsOf("greet", "success"), 2)
    /\ app_up = 1

(* C13: in every state in which Metrics::new has returned (the cell is      *)
(* complete) the up gauge is 1; no observe_command call, no step of the     *)
(* exporter and no step of the host changes it afterwards.                  *)
Constructed == METRICS.state = "complete"

C13_UpGaugeIsOneOnceConstructed ==
    [][ /\ Constructed' => app_up' = 1
        /\ Constructed => (Constructed' /\ app_up' = app_up) ]_vars

(* The registry was built, two calls and a scrape followed: the gauge is 1  *)
(* and was exported as 1.                                                   *)
C13_Witness ==
    /\ Constructed
    /\ app_up = 1
    /\ CallsMade = 2
    /\ Quiescent
    /\ lastResponse.status = 200
    /\ Exports(lastResponse.body, GaugeOpts.name, "", <<>>, 1)

(* The exporter's states of the design, read from the thread's position:    *)
(* NotStarted while no listener has been bound (no thread, the thread       *)
(* before or in Server::http, or ended by a failed bind), Listening in      *)
(* incoming_requests(), Serving inside the loop body, Stopped once the      *)
(* thread that had a listener has ended, with the process or because its    *)
(* for loop ended.                                                          *)
ExporterStateOf(p) ==
    IF p \in {"none", "bind", "exited"} THEN "NotStarted"
    ELSE IF p = "accept" THEN "Listening"
    ELSE IF p \in {"route", "gather", "encode"} THEN "Serving"
    ELSE "Stopped"

Shutdown == mainPc # "exited" /\ mainPc' = "exited"

(* C14: the exporter becomes Stopped only in a step in which the process    *)
(* shuts down; while the process runs it stays on the edges between         *)
(* NotStarted, Listening and Serving.                                       *)
C14_StoppedOnlyOnShutdown ==
    [][ (ExporterStateOf(srvPc) # "Stopped" /\ ExporterStateOf(srvPc') = "Stopped")
            => Shutdown ]_vars

(* C15: every step keeps each (command, status) key of the counter family   *)
(* and does not lower its count, and every count is >= 0; so between any    *)
(* two states of a run the counter map only grows pointwise.                *)
C15_CountersOnlyGrow ==
    [][ /\ \A k \in DOMAIN command_total :
              /\ k \in DOMAIN command_total'
              /\ command_total'[k] >= command_total[k]
        /\ \A k \in DOMAIN command_total' : command_total'[k] >= 0 ]_vars

(* A second key was added beside the first and both kept their counts while *)
(* a scrape was answered.                                                   *)
C15_Witness ==
    /\ DOMAIN command_total = { <<"greet", "success">>, <<"open_devtools", "success">> }
    /\ command_total[<<"greet", "success">>] = 1
    /\ command_total[<<"open_devtools", "success">>] = 1
    /\ Quiescent
    /\ lastResponse.status = 200

(* C16: the loop serves one request at a time, in the order the listener    *)
(* took them in (the ids): the responses issued so far are those of         *)
(* requests 1..n in that order, the request being served, if any, is        *)
(* request n + 1, and the requests still waiting are the later ones, in     *)
(* order (an accept error queued among them is not a request); outside the  *)
(* loop body no request is held.                                            *)
InLoopBody == srvPc \in {"route", "gather", "encode"}

IsRequest(r) == r # AcceptError
Waiting == SelectSeq(inbox, IsRequest)

C16_ServedOneAtATimeInOrder ==
    LET n == Len(responses)
        m == IF InLoopBody THEN n + 1 ELSE n
    IN  /\ \A i \in 1..n : responses[i].id = i
        /\ InLoopBody => srvReq.id = n + 1
        /\ (~InLoopBody /\ srvPc # "stopped") => srvReq = NoReq
        /\ \A i \in 1..Len(Waiting) : Waiting[i].id = m + i
        /\ m + Len(Waiting) = sent

(* Request 1 is being served while request 2 waits in the queue.            *)
C16_Witness ==
    /\ srvPc = "gather"
    /\ srvReq.id = 1
    /\ Len(inbox) = 1
    /\ inbox[1].id = 2
    /\ responses = <<>>

(* C17: every observe_command call returns, whatever the exporter does: not *)
(* started, bind failed, waiting for a request, or stopped for good in the  *)
(* middle of encoding or answering a scrape.                                *)
C17_ObserveCommandReturns ==
    \A t \in Threads : (pc[t] # "idle") ~> (pc[t] = "idle")

(* Both calls have returned although the scrape that was being gathered     *)
(* when they ran has still not been answered.                               *)
C17_Witness ==
    /\ Quiescent
    /\ CallsMade = 2
    /\ srvPc = "encode"
    /\ ~srvQuiet

(* C18: no step of the exporter thread (bind, taking a request, the 404     *)
(* answer, gather, encode, the 500 or 200 answer) changes the registry:     *)
(* the cell and whether it is constructed, the registered collectors, the   *)
(* children and values of the counter and histogram families and the        *)
(* gauge.  They change only in steps of observe_command calls.              *)
ExporterStep == <<listener, srvPc, srvReq, srvTodo, srvMf, responses>>' #
                <<listener, srvPc, srvReq, srvTodo, srvMf, responses>>

C18_RequestsLeaveRegistryUnchanged ==
    [][ ExporterStep =>
          /\ METRICS' = METRICS
          /\ instances' = instances
          /\ registry' = registry
          /\ DOMAIN command_total' = DOMAIN command_total
          /\ command_total' = command_total
          /\ command_duration' = command_duration
          /\ app_up' = app_up ]_vars

(* A scrape and a request for another path have both been answered after   *)
(* two calls were recorded, and the registry still holds the two calls.     *)
C18_Witness ==
    /\ Len(responses) = 2
    /\ {responses[1].status, responses[2].status} = {200, 404}
    /\ Constructed
    /\ Quiescent
    /\ CounterValue("greet", "success") = 2
    /\ <<"greet">> \in DOMAIN command_duration
    /\ command_duration[<<"greet">>].count = 2

(* C19: for every command the histogram's observation count is at most the  *)
(* sum of its counters over the statuses; the difference is the number of   *)
(* calls for that command that have incremented the counter and not yet     *)
(* observed the duration, so the two are equal whenever no call for the     *)
(* command is in progress.                                                  *)
HistogramCount(c) ==
    IF <<c>> \in DOMAIN command_duration THEN command_duration[<<c>>].count ELSE 0

CounterSum(c) ==
    SumOver(Statuses, [s \in Statuses |-> CounterValue(c, s)])

InProgressFor(c) == \E t \in Threads : pc[t] # "idle" /\ arg[t].command = c

BetweenIncAndObserve(c) ==
    Cardinality({t \in Threads : pc[t] \in {"duration", "observe"} /\ arg[t].command = c})

C19_HistogramCountAtMostCounters ==
    \A c \in Commands :
        /\ HistogramCount(c) <= CounterSum(c)
        /\ CounterSum(c) - HistogramCount(c) = BetweenIncAndObserve(c)
        /\ ~InProgressFor(c) => HistogramCount(c) = CounterSum(c)

(* "greet" was counted twice; the second call has incremented its counter   *)
(* and not yet observed its duration.                                       *)
C19_Witness ==
    /\ CounterValue("greet", "success") = 2
    /\ HistogramCount("greet") = 1
    /\ \E t \in Threads : pc[t] = "observe" /\ arg[t].command = "greet"

(* C20: every request that is next in the listener's queue while the        *)
(* thread is in incoming_requests(), and every request the loop body has    *)
(* taken, is answered and the thread is back in incoming_requests() after   *)
(* it, whichever branch answered it (404, 500, 200) and whether or not the  *)
(* responses, its own and those of the requests before it, could be         *)
(* delivered.                                                               *)
NextAccepted(i) == srvPc = "accept" /\ inbox # <<>> /\ Head(inbox).id = i
BeingServed(i) == InLoopBody /\ srvReq.id = i

C20_ExporterSurvivesFailedRespond ==
    \A i \in 1..MaxRequests :
        (NextAccepted(i) \/ BeingServed(i)) ~> (Len(responses) >= i /\ srvPc = "accept")

(* The response to request 1 could not be delivered and the exporter is     *)
(* now serving request 2.                                                   *)
C20_Witness ==
    /\ lastResponse.request.id = 1
    /\ ~lastResponse.delivered
    /\ srvReq.id = 2
    /\ srvPc = "encode"

====
